---- MODULE Spec2Model ----
(***************************************************************************)
(* Model of the link lifecycle engine of shorty-url-shortener              *)
(* (backend/src/index.ts): the creation path (shortenUrl and its routes),  *)
(* the redirect and stats read paths, the cron sweeper and the Redis       *)
(* fixed-window rate limiter.                                              *)
(*                                                                         *)
(* Strings are sequences of one-character strings, so that toLowerCase and *)
(* the alias format rule are computed and not assumed.  Time is an integer *)
(* clock; a null timestamp is Null.                                        *)
(***************************************************************************)
EXTENDS Integers, Sequences, FiniteSets, TLC

\* ------------------------------------------------------------------------
\* Bounds of the model
\* ------------------------------------------------------------------------
NumCreate == 2
NumLookup == 2
MaxLookups == 3
NumSweep == 1
MaxTime == 2
MaxExp == 1
MaxCreates == 2
NumRq == 2
MaxOver == 2
\* seconds that may pass between the INCR and the EXPIRE of a first request
MaxDelay == 1
\* rows in the table when the sweeper is looked at on its own
NumRows == 4
\* calls of the cron callback that may be in progress at once
NumOverlap == 2
\* items in the array of a bulk request
MaxItems == 2
\* half hours after midnight of a transition day that the wall-clock
\* times of the timezone conversion go up to
MaxHalfHours == 24

Null == 0 - 1

\* ------------------------------------------------------------------------
\* Strings
\* ------------------------------------------------------------------------
LowerLetters ==
  <<"a","b","c","d","e","f","g","h","i","j","k","l","m",
    "n","o","p","q","r","s","t","u","v","w","x","y","z">>

UpperLetters ==
  <<"A","B","C","D","E","F","G","H","I","J","K","L","M",
    "N","O","P","Q","R","S","T","U","V","W","X","Y","Z">>

Digits == {"0","1","2","3","4","5","6","7","8","9"}

Range(s) == {s[i] : i \in 1..Len(s)}

LowerOf ==
  [c \in Range(UpperLetters) |->
     LowerLetters[CHOOSE i \in 1..26 : UpperLetters[i] = c]]

ToLowerChar(c) == IF c \in DOMAIN LowerOf THEN LowerOf[c] ELSE c

toLowerCase(s) == [i \in 1..Len(s) |-> ToLowerChar(s[i])]

\* sample strings used as request inputs
S_abcdefg == <<"a","b","c","d","e","f","g">>
S_Abcdefg == <<"A","b","c","d","e","f","g">>
S_admin == <<"a","d","m","i","n">>
S_ab == <<"a","b">>
S_shorten == <<"s","h","o","r","t","e","n">>
S_eco == <<"e",".","c","o">>
S_url == <<"h","t","t","p","s",":","/","/","e",".","c","o">>
S_notAUrl == <<"n","o","t"," ","a"," ","u","r","l">>
S_http == <<"h","t","t","p",":","/","/">>
S_https == <<"h","t","t","p","s",":","/","/">>

RESERVED_WORDS ==
  { <<"a","d","m","i","n">>, <<"l","o","g","i","n">>,
    <<"s","i","g","n","u","p">>, <<"s","t","a","t","s">>,
    <<"a","p","i">>, <<"s","h","o","r","t","e","n">>,
    <<"a","u","t","h">>, <<"l","o","g","o","u","t">> }

IsPrefix(p, s) == Len(p) <= Len(s) /\ SubSeq(s, 1, Len(p)) = p

\* /^https?:\/\//i
HasScheme(url) ==
  IsPrefix(S_http, toLowerCase(url)) \/ IsPrefix(S_https, toLowerCase(url))

normalizeUrl(url) == IF ~HasScheme(url) THEN S_https \o url ELSE url

\* isURL with require_protocol: an http(s) scheme, then a host with a dot
\* and no blank
isValidUrl(url) ==
  /\ HasScheme(url)
  /\ LET rest == IF IsPrefix(S_https, toLowerCase(url))
                   THEN SubSeq(url, Len(S_https) + 1, Len(url))
                   ELSE SubSeq(url, Len(S_http) + 1, Len(url)) IN
     /\ rest # <<>>
     /\ " " \notin Range(rest)
     /\ "." \in Range(rest)
     /\ rest[1] # "."
     /\ rest[Len(rest)] # "."

isReserved(word) == toLowerCase(word) \in RESERVED_WORDS

AliasChars == Range(LowerLetters) \cup Range(UpperLetters) \cup Digits \cup {"_","-"}

isValidCustomAlias(alias) ==
  /\ Len(alias) >= 3
  /\ Len(alias) <= 30
  /\ \A i \in 1..Len(alias) : alias[i] \in AliasChars

\* codes the generator can return (nanoid(7): mixed case over AliasChars),
\* among them the one reserved word that has seven characters
GenSlugs == {S_abcdefg, S_Abcdefg, S_shorten}

\* slugs of the requests to GET /:slug and GET /stats/:slug
LookupSlugs == {S_abcdefg, S_Abcdefg}

\* custom_alias values of the creation requests (NoAlias: field absent)
NoAlias == <<>>
AliasInputs == {S_abcdefg, S_Abcdefg, S_admin, S_ab}

\* ------------------------------------------------------------------------
\* Error messages and their status codes
\* ------------------------------------------------------------------------
MSG_MISSING_URL == "Missing original_url"
MSG_INVALID_URL == "Invalid URL format"
MSG_NOT_FUTURE == "Expiration time must be in the future"
MSG_OUT_OF_BOUNDS ==
  "Expiry duration out of bounds: minimum 1 hour, maximum 3 months"
MSG_RESERVED == "This custom alias is reserved and cannot be used."
MSG_ALIAS_FORMAT == "Invalid custom alias format"
MSG_ALIAS_TAKEN == "Custom alias already in use"
MSG_SLUG_EXHAUSTED == "Failed to generate unique slug after several attempts"
\* error.message of the datastore for a unique-constraint violation
MSG_DB_DUPLICATE == "duplicate key value violates unique constraint"
\* error.message of the datastore for any other failure
MSG_DB_ERROR == "datastore error"
MSG_QR_ERROR == "qr render error"

mapErrorMessageToStatusCode(msg) ==
  CASE msg \in {MSG_MISSING_URL, MSG_INVALID_URL, "Invalid expires_at format",
                MSG_NOT_FUTURE, "Invalid relative_expiry format",
                MSG_ALIAS_FORMAT, MSG_OUT_OF_BOUNDS}
         -> 400
    [] msg = MSG_RESERVED -> 403
    [] msg = MSG_ALIAS_TAKEN -> 409
    [] OTHER -> 500


\* ------------------------------------------------------------------------
\* State
\* ------------------------------------------------------------------------
VARIABLES
  urls,       \* the "urls" table: a set of rows
  nextId,     \* next row id the datastore assigns
  qrcodes,    \* the "qrcodes" bucket: short codes c whose qr/<c>.png exists
  now,        \* the clock
  cr,         \* creation requests (shortenUrl invocations) in progress, by slot
  crStarted,  \* number of creation requests started
  crResp,     \* the last answer of POST /shorten, with what its insert did
  sw,         \* sweeper runs (cron callback invocations), by slot
  lk,         \* redirect requests (GET /:slug) in progress, by slot; wasExpired
              \* records whether the row read was expired when it was read
  lkStarted,  \* number of redirect requests started
  lkResp,     \* the last answer of GET /:slug, and whether the row it read
              \* was expired when it was read
  served,     \* number of redirects served per row id
  updErr,     \* whether a click-count update has failed
  st,         \* the last answer of GET /stats/:slug, and whether the row it
              \* returned was expired then
  rlCount,    \* value of the client's Redis counter, 0 when the key is absent
  rlTtl,      \* seconds left of the key's TTL, NoTtl when it has none
  rq,         \* rate-limited requests of the client, by slot
  rlResp,     \* the last answer of the rate limiter
  win,        \* bookkeeping of the current window of the client's key
  bk,         \* the POST /bulk-shorten request: its items, its position in
              \* the loop, the results pushed and the status answered
  fx,         \* an application of one of the helper functions or of the
              \* router: the function, its input and its result
  form        \* the state of the ShortenForm component in the browser and
              \* the position of its submit handler

dbVars == <<urls, nextId, qrcodes>>
createVars == <<cr, crStarted, crResp>>
lookupVars == <<lk, lkStarted, lkResp, served, updErr, st>>
rlVars == <<rlCount, rlTtl, rq, rlResp, win>>
vars == <<urls, nextId, qrcodes, now, cr, crStarted, crResp, sw, lk, lkStarted, lkResp, served,
          updErr, st, rlCount, rlTtl, rq, rlResp, win, bk, fx, form>>

Creates == 1..NumCreate
Sweeps == 1..NumSweep
Lookups == 1..NumLookup
Rqs == 1..NumRq

\* ------------------------------------------------------------------------
\* The datastore (table "urls", unique on short_code) and the bucket
\* ------------------------------------------------------------------------
NewRow(id, url, code, exp) ==
  [id |-> id, original_url |-> url, short_code |-> code, expires_at |-> exp,
   clicks |-> 0, qr_code_url |-> <<>>]

RowsByCode(table, code) == {r \in table : r.short_code = code}

\* .maybeSingle() / .single(): the row, when exactly one matches
HasSingle(table, code) == Cardinality(RowsByCode(table, code)) = 1

SingleRow(table, code) == CHOOSE r \in table : r.short_code = code

\* a table without the constraint
UniqueViolation_absent(table, code) == FALSE

\* the unique constraint on short_code
UniqueViolation(table, code) == RowsByCode(table, code) # {}

\* .lt("expires_at", t): null never compares
\* a row counted as expired at the very moment of its expires_at
IsExpired_inclusive(exp, t) == exp # Null /\ exp <= t

\* .lt("expires_at", now); new Date(data.expires_at) < now
IsExpired(exp, t) == exp # Null /\ exp < t

ExpiredCodes(table, t) ==
  {r.short_code : r \in {x \in table : IsExpired(x.expires_at, t)}}

\* .update({qr_code_url: ref}).eq("short_code", code)
UpdateQr(table, code, ref) ==
  {IF r.short_code = code THEN [r EXCEPT !.qr_code_url = ref] ELSE r :
     r \in table}

\* .update({clicks: n}).eq("short_code", code)
UpdateClicks(table, code, n) ==
  {IF r.short_code = code THEN [r EXCEPT !.clicks = n] ELSE r : r \in table}

DeleteByCodes(table, codes) == {r \in table : r.short_code \notin codes}

publicUrl(code) == <<"q","r","/">> \o code

\* ------------------------------------------------------------------------
\* Creation: shortenUrl behind POST /shorten
\* ------------------------------------------------------------------------
maxAttempts == 5

\* the clock counts hours
MIN_EXPIRY_MS == 1
MAX_EXPIRY_MS == 3 * 30 * 24

\* a request in shortenUrl. Beside the locals of the code it records what
\* its awaits met: hits, the existence checks of generateUniqueSlug that
\* found a row (kept with attempts until the insert has succeeded); for a
\* custom alias held, whether a row held the code when the existence check
\* ran, and answered, whether that query came back without an error;
\* stored, whether the upload of the image succeeded
IdleCreate ==
  [pc |-> "idle", original_url |-> <<>>, custom |-> FALSE, slug |-> <<>>,
   attempts |-> 0, short_code |-> <<>>, expiration |-> Null,
   hits |-> 0, held |-> FALSE, answered |-> FALSE, stored |-> FALSE]

\* an answer of POST /shorten: status and message, the code the request
\* asked for or settled on, the qr_code_url of the body, and what the
\* request met on its way
NoCreated ==
  [status |-> 0, msg |-> "", custom |-> FALSE, insErr |-> "", inserts |-> 0,
   code |-> <<>>, qr |-> <<>>, attempts |-> 0, hits |-> 0, held |-> FALSE,
   answered |-> FALSE, stored |-> FALSE]

\* the answer to the request c
Answer(c, status, msg, insErr, inserts, qr) ==
  [status |-> status, msg |-> msg, custom |-> c.custom, insErr |-> insErr,
   inserts |-> inserts, code |-> c.short_code, qr |-> qr,
   attempts |-> c.attempts, hits |-> c.hits, held |-> c.held,
   answered |-> c.answered, stored |-> c.stored]

\* the catch of POST /shorten for the request c of slot i
ThrowOf(i, c, msg, insErr, inserts) ==
  /\ cr' = [cr EXCEPT ![i] = IdleCreate]
  /\ crResp' = Answer(c, mapErrorMessageToStatusCode(msg), msg, insErr,
                      inserts, <<>>)

\* the catch of POST /shorten: the thrown message decides the status
Throw(i, msg, insErr, inserts) == ThrowOf(i, cr[i], msg, insErr, inserts)

\* expires_at values of the requests: absent, or an absolute hour
ExpiryInputs == {Null} \cup 1..MaxExp

\* validateAndComputeExpiry for an absolute expires_at: "" when accepted
ExpiryError(exp, t) ==
  IF exp = Null THEN ""
  ELSE IF exp <= t THEN MSG_NOT_FUTURE
  ELSE IF exp - t < MIN_EXPIRY_MS \/ exp - t > MAX_EXPIRY_MS
    THEN MSG_OUT_OF_BOUNDS
  ELSE ""

\* original_url values of the requests
UrlInputs == {<<>>, S_eco, S_url, S_notAUrl}

\* the checks of original_url, in their order: the message thrown, or ""
UrlError(url) ==
  IF url = <<>> THEN MSG_MISSING_URL
  ELSE IF ~isValidUrl(normalizeUrl(url)) THEN MSG_INVALID_URL
  ELSE ""

\* the checks of custom_alias without the reserved words
AliasError_noReserved(alias) ==
  IF alias = NoAlias THEN ""
  ELSE IF ~isValidCustomAlias(toLowerCase(alias)) THEN MSG_ALIAS_FORMAT
  ELSE ""

\* the checks of custom_alias before the existence check, in their order
AliasError(alias) ==
  IF alias = NoAlias THEN ""
  ELSE IF isReserved(toLowerCase(alias)) THEN MSG_RESERVED
  ELSE IF ~isValidCustomAlias(toLowerCase(alias)) THEN MSG_ALIAS_FORMAT
  ELSE ""

\* the string computations on the request inputs, tabulated
UrlErrorOf == [u \in UrlInputs |-> UrlError(u)]
NormalizedOf == [u \in UrlInputs |-> normalizeUrl(u)]
AliasErrorOf == [a \in AliasInputs \cup {NoAlias} |-> AliasError(a)]
LoweredOf ==
  [c \in AliasInputs \cup GenSlugs \cup LookupSlugs |-> toLowerCase(c)]

\* the checks of shortenUrl before its first await, in their order:
\* the message thrown, "" when none is
StartError(url, alias, exp, t) ==
  IF UrlErrorOf[url] # "" THEN UrlErrorOf[url]
  ELSE IF ExpiryError(exp, t) # "" THEN ExpiryError(exp, t)
  ELSE AliasErrorOf[alias]

\* shortenUrl up to its first await, for the given parameters
ShortenStart(i, url, alias, exp) ==
       LET err == StartError(url, alias, exp, now) IN
       IF err # ""
         THEN /\ UNCHANGED cr
              /\ crResp' = [NoCreated EXCEPT
                              !.status = mapErrorMessageToStatusCode(err),
                              !.msg = err, !.custom = (alias # NoAlias),
                              !.code = IF err = AliasErrorOf[alias]
                                         THEN LoweredOf[alias] ELSE <<>>]
       ELSE IF alias # NoAlias
         THEN /\ cr' = [cr EXCEPT ![i] =
                          [IdleCreate EXCEPT !.pc = "checkAlias",
                             !.custom = TRUE,
                             !.original_url = NormalizedOf[url],
                             !.short_code = LoweredOf[alias],
                             !.expiration = exp]]
              /\ UNCHANGED crResp
       ELSE /\ \E s \in GenSlugs :
                 cr' = [cr EXCEPT ![i] =
                          [IdleCreate EXCEPT !.pc = "checkSlug", !.slug = s,
                             !.original_url = NormalizedOf[url],
                             !.expiration = exp]]
            /\ UNCHANGED crResp

\* POST /shorten: shortenUrl is called with the body of the request
CreateStart(i) ==
  /\ cr[i].pc = "idle"
  /\ crStarted < MaxCreates
  /\ crStarted' = crStarted + 1
  /\ \E url \in UrlInputs, alias \in AliasInputs \cup {NoAlias},
        exp \in ExpiryInputs :
       ShortenStart(i, url, alias, exp)
  /\ UNCHANGED <<form, bk, fx, dbVars, now, sw, lookupVars, rlVars>>

\* no existence check at all
ExistingAlias_never(table, code, ok) == FALSE

\* const { data: existingAlias } = await ... .maybeSingle(): a failed query
\* yields no data, and its error is not looked at
ExistingAlias(table, code, ok) == ok /\ HasSingle(table, code)

\* the existence check of a custom alias
CreateCheckAlias(i) ==
  /\ cr[i].pc = "checkAlias"
  /\ \E ok \in BOOLEAN :
       LET existingAlias == ExistingAlias(urls, cr[i].short_code, ok)
           c == [cr[i] EXCEPT !.held = HasSingle(urls, cr[i].short_code),
                              !.answered = ok] IN
       IF existingAlias
         THEN ThrowOf(i, c, MSG_ALIAS_TAKEN, "", 0)
         ELSE /\ cr' = [cr EXCEPT ![i] = [c EXCEPT !.pc = "insert"]]
              /\ UNCHANGED crResp
  /\ UNCHANGED <<form, bk, fx, dbVars, now, sw, crStarted, lookupVars, rlVars>>

\* a loop without the bound on the attempts
LoopAgain_unbounded(exists, attempts) == exists /\ attempts < maxAttempts + 1

\* while (exists && attempts < maxAttempts), tested after an iteration
LoopAgain(exists, attempts) == exists /\ attempts < maxAttempts

\* one iteration of the loop of generateUniqueSlug, then its exit; the
\* code that is inserted is the lower-cased slug, and the slug that the
\* last existence check looked for is kept until the insert has succeeded
CreateCheckSlug(i) ==
  /\ cr[i].pc = "checkSlug"
  /\ \E ok \in BOOLEAN :
       LET exists == ok /\ HasSingle(urls, cr[i].slug)
           attempts == cr[i].attempts + 1
           c == [cr[i] EXCEPT !.attempts = attempts,
                              !.hits = IF exists THEN @ + 1 ELSE @] IN
       IF LoopAgain(exists, attempts)
         THEN /\ \E s \in GenSlugs :
                   cr' = [cr EXCEPT ![i] = [c EXCEPT !.slug = s]]
              /\ UNCHANGED crResp
       ELSE IF exists THEN ThrowOf(i, c, MSG_SLUG_EXHAUSTED, "", 0)
       ELSE /\ cr' = [cr EXCEPT ![i] =
                        [c EXCEPT !.pc = "insert",
                                  !.short_code = LoweredOf[cr[i].slug]]]
            /\ UNCHANGED crResp
  /\ UNCHANGED <<form, bk, fx, dbVars, now, sw, crStarted, lookupVars, rlVars>>

\* the error of the insert: the datastore fails, or rejects a duplicate
InsertError(table, code, ok) ==
  IF ~ok THEN MSG_DB_ERROR
  ELSE IF UniqueViolation(table, code) THEN MSG_DB_DUPLICATE
  ELSE ""

\* the insert; its error message is thrown as it is
CreateInsert(i) ==
  /\ cr[i].pc = "insert"
  /\ \E ok \in BOOLEAN :
       LET err == InsertError(urls, cr[i].short_code, ok) IN
       IF err # ""
         THEN /\ Throw(i, err, err, 1)
              /\ UNCHANGED dbVars
         ELSE /\ urls' = urls \cup
                   {NewRow(nextId, cr[i].original_url, cr[i].short_code,
                           cr[i].expiration)}
              /\ nextId' = nextId + 1
              /\ cr' = [cr EXCEPT ![i].pc = "render", ![i].attempts = 0,
                                  ![i].hits = 0, ![i].slug = <<>>]
              /\ UNCHANGED <<qrcodes, crResp>>
  /\ UNCHANGED <<form, bk, fx, now, sw, crStarted, lookupVars, rlVars>>

\* QRCode.toBuffer, then the upload to the bucket (upsert)
CreateRenderUpload(i) ==
  /\ cr[i].pc = "render"
  /\ \/ /\ Throw(i, MSG_QR_ERROR, "", 1)
        /\ UNCHANGED qrcodes
     \/ /\ qrcodes' = qrcodes \cup {cr[i].short_code}
        /\ cr' = [cr EXCEPT ![i].pc = "patch", ![i].stored = TRUE]
        /\ UNCHANGED crResp
     \/ /\ UNCHANGED <<qrcodes, crResp>>
        /\ cr' = [cr EXCEPT ![i].pc = "patch"]
  /\ UNCHANGED <<form, bk, fx, urls, nextId, now, sw, crStarted, lookupVars, rlVars>>

\* the update of qr_code_url, then the 201 answer
CreatePatch(i) ==
  /\ cr[i].pc = "patch"
  /\ \/ urls' = UpdateQr(urls, cr[i].short_code, publicUrl(cr[i].short_code))
     \/ UNCHANGED urls
  /\ cr' = [cr EXCEPT ![i] = IdleCreate]
  /\ crResp' = Answer(cr[i], 201, "", "", 1, publicUrl(cr[i].short_code))
  /\ UNCHANGED <<form, bk, fx, nextId, qrcodes, now, sw, crStarted, lookupVars,
                rlVars>>

\* ------------------------------------------------------------------------
\* The sweeper: the cron callback
\* ------------------------------------------------------------------------
\* a run of the sweeper: the codes it matched, the time of its select (at),
\* and the errors of its two bulk calls; done marks a run that went through
\* to its end and stays, with the two error flags, until the next run;
\* delErr stays on until the delete of the next run
IdleSweep ==
  [pc |-> "idle", codes |-> {}, at |-> 0, remErr |-> FALSE, delErr |-> FALSE,
   done |-> FALSE]

\* a schedule that fires once
SweepDue_once(s) == sw[s].pc = "idle" /\ ~sw[s].done

\* cron.schedule("0 */8 * * *", ...): the callback is called at every tick
\* of the schedule, whatever the runs before it met
SweepDue(s) == sw[s].pc = "idle"

\* the select of the expired rows; an error or an empty list ends the run
SweepFetch(s) ==
  /\ SweepDue(s)
  /\ \E ok \in BOOLEAN :
       LET expiredUrls == ExpiredCodes(urls, now) IN
       IF ok /\ expiredUrls # {}
         THEN sw' = [sw EXCEPT ![s] =
                      [IdleSweep EXCEPT !.pc = "remove",
                                        !.codes = expiredUrls, !.at = now,
                                        !.delErr = sw[s].delErr]]
         ELSE UNCHANGED sw
  /\ UNCHANGED <<form, bk, fx, dbVars, now, createVars, lookupVars, rlVars>>

\* a sweep that gives up when the removal of the images fails
AfterRemove_abort(storageError) == IF storageError THEN "idle" ELSE "delete"

\* if (storageError) console.error(...) else console.log(...): both ways
\* the callback goes on to the delete of the rows
AfterRemove(storageError) == "delete"

\* the removal of the QR images; an error is logged
SweepRemove(s) ==
  /\ sw[s].pc = "remove"
  /\ \E storageError \in BOOLEAN :
       /\ qrcodes' = IF storageError THEN qrcodes ELSE qrcodes \ sw[s].codes
       /\ sw' = [sw EXCEPT ![s].pc = AfterRemove(storageError),
                           ![s].remErr = storageError]
  /\ UNCHANGED <<form, bk, fx, urls, nextId, now, createVars, lookupVars, rlVars>>

\* the delete of the rows; an error is logged
SweepDelete(s) ==
  /\ sw[s].pc = "delete"
  /\ \E deleteError \in BOOLEAN :
       /\ urls' = IF deleteError THEN urls
                  ELSE DeleteByCodes(urls, sw[s].codes)
       /\ sw' = [sw EXCEPT ![s] =
                   [IdleSweep EXCEPT !.remErr = sw[s].remErr,
                                     !.delErr = deleteError, !.done = TRUE]]
  /\ UNCHANGED <<form, bk, fx, nextId, qrcodes, now, createVars, lookupVars, rlVars>>

\* ------------------------------------------------------------------------
\* Time
\* ------------------------------------------------------------------------
Tick ==
  /\ now < MaxTime
  /\ now' = now + 1
  /\ UNCHANGED <<form, bk, fx, dbVars, createVars, sw, lookupVars, rlVars>>


\* ------------------------------------------------------------------------
\* The redirect route GET /:slug
\* ------------------------------------------------------------------------
NoData == [original_url |-> <<>>, clicks |-> 0, expires_at |-> Null]

IdleLookup ==
  [pc |-> "idle", slug |-> <<>>, api |-> FALSE, found |-> FALSE,
   data |-> NoData, wasExpired |-> FALSE, write |-> 0]

NoAnswer == [status |-> 0, target |-> <<>>, expired |-> FALSE]

L_notFound == <<"/","n","o","t","-","f","o","u","n","d">>
L_expired == <<"/","e","x","p","i","r","e","d">>

\* headers.accept includes application/json, or x-requested-with is set:
\* a JSON answer; otherwise a redirect
Respond(api, jsonStatus, target, expired) ==
  IF api
    THEN [status |-> jsonStatus,
          target |-> IF jsonStatus = 200 THEN target ELSE <<>>,
          expired |-> expired]
    ELSE [status |-> 302, target |-> target, expired |-> expired]

\* const { slug } = req.params; ... .eq("short_code", slug): the redirect
\* route looks for the slug of the path as it was sent
RedirectKey(slug) == slug

\* const slug = req.params.slug.toLowerCase(); ... .eq("short_code", slug):
\* the stats route looks for the lower-cased slug
StatsKey(slug) == LoweredOf[slug]

\* the select of original_url, clicks, expires_at by short_code (.single())
LookupSelect(j) ==
  /\ lk[j].pc = "idle"
  /\ lkStarted < MaxLookups
  /\ lkStarted' = lkStarted + 1
  /\ \E slug \in LookupSlugs, api \in BOOLEAN, ok \in BOOLEAN :
       LET hit == ok /\ HasSingle(urls, RedirectKey(slug))
           row == SingleRow(urls, RedirectKey(slug)) IN
       lk' = [lk EXCEPT ![j] =
                [IdleLookup EXCEPT !.pc = "selected", !.slug = slug,
                   !.api = api, !.found = hit,
                   !.wasExpired = hit /\ IsExpired(row.expires_at, now),
                   !.data = IF hit
                              THEN [original_url |-> row.original_url,
                                    clicks |-> row.clicks,
                                    expires_at |-> row.expires_at]
                              ELSE NoData]]
  /\ UNCHANGED <<form, bk, fx, dbVars, now, createVars, sw, served, updErr, st,
                lkResp, rlVars>>

\* the handler without its expiry check
LookupIsExpired_dropped(exp, t) == FALSE

\* data.expires_at && new Date(data.expires_at) < now
LookupIsExpired(exp, t) == exp # Null /\ exp < t

\* the rest of the handler: 404, 410, or the answer with the click update
\* started and not awaited
LookupRespond(j) ==
  /\ lk[j].pc = "selected"
  /\ LET was == lk[j].wasExpired IN
     IF ~lk[j].found
       THEN /\ lkResp' = Respond(lk[j].api, 404, L_notFound, FALSE)
            /\ lk' = [lk EXCEPT ![j] = IdleLookup]
            /\ UNCHANGED served
     ELSE IF LookupIsExpired(lk[j].data.expires_at, now)
       THEN /\ lkResp' = Respond(lk[j].api, 410, L_expired, was)
            /\ lk' = [lk EXCEPT ![j] = IdleLookup]
            /\ UNCHANGED served
     ELSE /\ lkResp' = Respond(lk[j].api, 200, lk[j].data.original_url, was)
          /\ lk' = [lk EXCEPT ![j] =
                      [IdleLookup EXCEPT !.pc = "update", !.slug = lk[j].slug,
                         !.wasExpired = was,
                         !.write = lk[j].data.clicks + 1]]
          /\ served' = [served EXCEPT ![lk[j].slug] = @ + 1]
  /\ UNCHANGED <<form, bk, fx, dbVars, now, createVars, sw, lkStarted, updErr, st,
                rlVars>>

\* a handler that takes its answer back when the update fails
AfterUpdate_fail(resp, updateError) ==
  IF updateError THEN [resp EXCEPT !.status = 500, !.target = <<>>]
  ELSE resp

\* .then(({ error: updateError }) => { if (updateError) console.error(...) }):
\* the callback of the update only logs; the answer was sent before it ran
AfterUpdate(resp, updateError) == resp

\* the click update reaches the datastore; its error is logged
LookupUpdate(j) ==
  /\ lk[j].pc = "update"
  /\ \E updateError \in BOOLEAN :
       /\ urls' = IF updateError THEN urls
                  ELSE UpdateClicks(urls, lk[j].slug, lk[j].write)
       /\ updErr' = (updErr \/ updateError)
       /\ lkResp' = AfterUpdate(lkResp, updateError)
  /\ lk' = [lk EXCEPT ![j] = IdleLookup]
  /\ UNCHANGED <<form, bk, fx, nextId, qrcodes, now, createVars, sw, lkStarted,
                served, st, rlVars>>

\* ------------------------------------------------------------------------
\* The stats route GET /stats/:slug
\* ------------------------------------------------------------------------
NoStats == [status |-> 0, expired |-> FALSE]

Stats ==
  /\ \E s \in LookupSlugs, ok \in BOOLEAN :
       LET slug == StatsKey(s) IN
       IF ok /\ HasSingle(urls, slug)
         THEN st' = [status |-> 200,
                     expired |->
                       IsExpired(SingleRow(urls, slug).expires_at, now)]
         ELSE st' = [status |-> 404, expired |-> FALSE]
  /\ UNCHANGED <<form, bk, fx, dbVars, now, createVars, sw, lk, lkStarted, served,
                updErr, lkResp,
                 rlVars>>


\* ------------------------------------------------------------------------
\* The rate limiter in front of POST /shorten and POST /bulk-shorten.
\* The counter store is followed for one client, whose key is
\* rate_limit:<ip>; the keys of different clients do not interact.
\* ------------------------------------------------------------------------
RATE_LIMIT_WINDOW == 60
MAX_REQUESTS_PER_WINDOW == 20

NoTtl == 0 - 1

IdleRq == [pc |-> "idle", requests |-> 0]

\* nexts counts the calls of next() made for the request
NoResp ==
  [outcome |-> "none", requests |-> 0, err |-> FALSE, retryAfter |-> 0,
   nexts |-> 0]

\* ages are counted in seconds up to AgeCap, which stands for "more than
\* the window length"
NoAge == 0 - 1
AgeCap == RATE_LIMIT_WINDOW + 1
Older(a) == IF a < AgeCap THEN a + 1 ELSE AgeCap

\* the book-keeping of the client's current window: the answers given in
\* it, the seconds since its first INCR (startAge), the seconds since the
\* first INCR of the window before it (prevAge) and whether that window
\* admitted the full 20 (prevFull)
NewWin ==
  [admitted |-> 0, rejected |-> 0, limited |-> FALSE, prevLimited |-> FALSE,
   fault |-> FALSE, startAge |-> 0, prevAge |-> NoAge, prevFull |-> FALSE]

\* a TTL of half the window
WindowTtl_half == RATE_LIMIT_WINDOW \div 2

\* redisClient.expire(redisKey, RATE_LIMIT_WINDOW)
WindowTtl == RATE_LIMIT_WINDOW

\* the TTL attached on every request
IsFirstRequest_always(requests) == TRUE

\* if (requests === 1)
IsFirstRequest(requests) == requests = 1

\* the comparison off by one
OverLimit_offByOne(requests) == requests >= MAX_REQUESTS_PER_WINDOW

\* if (requests > MAX_REQUESTS_PER_WINDOW)
OverLimit(requests) == requests > MAX_REQUESTS_PER_WINDOW

\* a 429 answer without the return: next() is called after it
Decide_thenNext(k, requests) ==
  /\ rq' = [rq EXCEPT ![k] = IdleRq]
  /\ rlResp' = [outcome |-> IF requests > MAX_REQUESTS_PER_WINDOW
                              THEN "429" ELSE "next",
                requests |-> requests, err |-> FALSE,
                retryAfter |-> IF requests > MAX_REQUESTS_PER_WINDOW
                                 THEN RATE_LIMIT_WINDOW ELSE 0,
                nexts |-> 1]
  /\ win' = IF requests > MAX_REQUESTS_PER_WINDOW
              THEN [win EXCEPT !.rejected = @ + 1, !.limited = TRUE]
              ELSE [win EXCEPT !.admitted = @ + 1]

\* the end of the try block: the 429 answer, or next()
Decide(k, requests) ==
  /\ rq' = [rq EXCEPT ![k] = IdleRq]
  /\ IF OverLimit(requests)
       THEN /\ rlResp' = [outcome |-> "429", requests |-> requests,
                          err |-> FALSE, retryAfter |-> RATE_LIMIT_WINDOW,
                          nexts |-> 0]
            /\ win' = [win EXCEPT !.rejected = @ + 1, !.limited = TRUE]
       ELSE /\ rlResp' = [outcome |-> "next", requests |-> requests,
                          err |-> FALSE, retryAfter |-> 0, nexts |-> 1]
            /\ win' = [win EXCEPT !.admitted = @ + 1]

\* a catch block that refuses the request
FailOpen_closed(k, requests) ==
  /\ rq' = [rq EXCEPT ![k] = IdleRq]
  /\ rlResp' = [outcome |-> "429", requests |-> requests, err |-> TRUE,
                retryAfter |-> RATE_LIMIT_WINDOW, nexts |-> 0]
  /\ win' = [win EXCEPT !.rejected = @ + 1, !.fault = TRUE]

\* the catch block: the error is logged and next() is called
FailOpen(k, requests) ==
  /\ rq' = [rq EXCEPT ![k] = IdleRq]
  /\ rlResp' = [outcome |-> "next", requests |-> requests, err |-> TRUE,
                retryAfter |-> 0, nexts |-> 1]
  /\ win' = [win EXCEPT !.admitted = @ + 1, !.fault = TRUE]

\* redisClient.incr(redisKey): creates the key at 1 when it is absent and
\* leaves its TTL as it is
RlIncr(k) ==
  /\ rq[k].pc = "idle"
  /\ win.admitted + win.rejected < MAX_REQUESTS_PER_WINDOW + MaxOver
  /\ \/ /\ FailOpen(k, 0)
        /\ UNCHANGED <<rlCount, rlTtl>>
     \/ LET requests == rlCount + 1 IN
        /\ rlCount' = requests
        /\ UNCHANGED rlTtl
        /\ IF IsFirstRequest(requests)
             THEN /\ rq' = [rq EXCEPT ![k] = [pc |-> "expire",
                                              requests |-> requests]]
                  /\ UNCHANGED <<rlResp, win>>
             ELSE Decide(k, requests)
  /\ UNCHANGED <<form, bk, fx, dbVars, now, createVars, sw, lookupVars>>

\* redisClient.expire(redisKey, RATE_LIMIT_WINDOW)
RlExpire(k) ==
  /\ rq[k].pc = "expire"
  /\ \/ /\ FailOpen(k, rq[k].requests)
        /\ UNCHANGED <<rlCount, rlTtl>>
     \/ /\ rlTtl' = IF rlCount > 0 THEN WindowTtl ELSE rlTtl
        /\ UNCHANGED rlCount
        /\ Decide(k, rq[k].requests)
  /\ UNCHANGED <<form, bk, fx, dbVars, now, createVars, sw, lookupVars>>

\* the process is interrupted between the two calls
RlInterrupt(k) ==
  /\ rq[k].pc = "expire"
  /\ rq' = [rq EXCEPT ![k] = IdleRq]
  /\ win' = [win EXCEPT !.fault = TRUE]
  /\ UNCHANGED <<rlCount, rlTtl, rlResp>>
  /\ UNCHANGED <<form, bk, fx, dbVars, now, createVars, sw, lookupVars>>

\* one second passes in the counter store; a key whose TTL runs out is gone
RlTick ==
  /\ \/ rlTtl # NoTtl
     \/ rlCount > 0 /\ win.startAge < MaxDelay
     \/ rlCount = 0 /\ win.prevAge # NoAge /\ win.prevAge < AgeCap
  /\ IF rlTtl = 1
       THEN /\ rlCount' = 0
            /\ rlTtl' = NoTtl
            /\ win' = [NewWin EXCEPT
                        !.fault = win.fault,
                        !.prevLimited = win.limited,
                        !.prevAge = Older(win.startAge),
                        !.prevFull =
                          (win.admitted = MAX_REQUESTS_PER_WINDOW)]
       ELSE /\ rlTtl' = IF rlTtl = NoTtl THEN NoTtl ELSE rlTtl - 1
            /\ UNCHANGED rlCount
            /\ win' = [win EXCEPT
                        !.startAge = IF rlCount > 0 THEN Older(@) ELSE @,
                        !.prevAge = IF @ = NoAge THEN @ ELSE Older(@)]
  /\ UNCHANGED <<rq, rlResp>>
  /\ UNCHANGED <<form, bk, fx, dbVars, now, createVars, sw, lookupVars>>

\* ------------------------------------------------------------------------
\* The route POST /bulk-shorten
\* ------------------------------------------------------------------------
\* the handler of POST /bulk-shorten: the items of req.body.urls, the index
\* of the item the loop is at, the results pushed, the status answered
\* (0 when the request is left without an answer)
IdleBulk ==
  [pc |-> "idle", items |-> <<>>, idx |-> 0, results |-> <<>>, status |-> 0]

\* the elements of req.body.urls: JSON null, or an object with or without
\* original_url and custom_alias
NullItem == [isNull |-> TRUE, original_url |-> <<>>, custom_alias |-> NoAlias]
ObjectItem(url, alias) ==
  [isNull |-> FALSE, original_url |-> url, custom_alias |-> alias]
BulkItems ==
  {NullItem, ObjectItem(S_url, NoAlias), ObjectItem(<<>>, NoAlias),
   ObjectItem(S_url, S_abcdefg)}

\* the arrays that req.body.urls may hold
BulkArrays == UNION {[1..n -> BulkItems] : n \in 0..MaxItems}

\* the check of the body: anything but an array is answered 400
BulkReceive ==
  /\ bk.pc = "idle"
  /\ \/ bk' = [IdleBulk EXCEPT !.pc = "done", !.status = 400]
     \/ \E entries \in BulkArrays :
          bk' = [IdleBulk EXCEPT !.pc = "loop", !.items = entries, !.idx = 1]
  /\ UNCHANGED <<form, fx, dbVars, now, createVars, sw, lookupVars, rlVars>>

\* for (const entry of entries): shortenUrl({ ...entry, req }), awaited;
\* the spread of null has no properties
BulkCall(i) ==
  /\ bk.pc = "loop"
  /\ bk.idx <= Len(bk.items)
  /\ \A k \in Creates : cr[k].pc = "idle"
  /\ LET entry == bk.items[bk.idx] IN
     ShortenStart(i, entry.original_url, entry.custom_alias, Null)
  /\ bk' = [bk EXCEPT !.pc = "await"]
  /\ UNCHANGED <<form, fx, dbVars, now, crStarted, sw, lookupVars, rlVars>>

\* a result of the bulk answer
BulkResult(success, url, code) ==
  [success |-> success, original_url |-> url, error_code |-> code]

\* shortenUrl has returned or thrown: results.push of the try block or of
\* the catch block; the catch block reads entry.original_url again, which
\* throws for a null entry and rejects the promise of the handler: the
\* request gets no answer, or the 500 of the framework's error handler
BulkCollect ==
  /\ bk.pc = "await"
  /\ \A k \in Creates : cr[k].pc = "idle"
  /\ LET entry == bk.items[bk.idx] IN
     IF crResp.status = 201
       THEN bk' = [bk EXCEPT !.pc = "loop", !.idx = @ + 1,
                     !.results = Append(@,
                        BulkResult(TRUE, entry.original_url, 0))]
     ELSE IF entry.isNull
       THEN \E status \in {0, 500} :
              bk' = [bk EXCEPT !.pc = "done", !.status = status]
     ELSE bk' = [bk EXCEPT !.pc = "loop", !.idx = @ + 1,
                   !.results = Append(@,
                      BulkResult(FALSE, entry.original_url,
                                 mapErrorMessageToStatusCode(crResp.msg)))]
  /\ UNCHANGED <<form, fx, dbVars, now, createVars, sw, lookupVars, rlVars>>

\* return res.status(207).json({ results })
BulkRespond ==
  /\ bk.pc = "loop"
  /\ bk.idx > Len(bk.items)
  /\ bk' = [bk EXCEPT !.pc = "done", !.status = 207]
  /\ UNCHANGED <<form, fx, dbVars, now, createVars, sw, lookupVars, rlVars>>

\* ------------------------------------------------------------------------
\* The router
\* ------------------------------------------------------------------------
S_health == <<"h","e","a","l","t","h">>
S_bulkShorten == <<"b","u","l","k","-","s","h","o","r","t","e","n">>
S_stats == <<"s","t","a","t","s">>

\* a segment of a route path: a literal, or a parameter such as :slug
Lit(text) == [param |-> FALSE, text |-> text]
Param == [param |-> TRUE, text |-> <<>>]

\* the routes of the app in the order of their registration
ROUTES ==
  << [method |-> "POST", path |-> <<Lit(S_shorten)>>, handler |-> "shorten"],
     [method |-> "POST", path |-> <<Lit(S_bulkShorten)>>,
      handler |-> "bulk-shorten"],
     [method |-> "GET", path |-> <<Lit(S_stats), Param>>, handler |-> "stats"],
     [method |-> "GET", path |-> <<Param>>, handler |-> "slug"],
     [method |-> "GET", path |-> <<Lit(S_health)>>, handler |-> "health"] >>

\* the route matches the method and the segments of the request path
Matches(route, method, segments) ==
  /\ route.method = method
  /\ Len(route.path) = Len(segments)
  /\ \A k \in 1..Len(segments) :
       route.path[k].param \/ route.path[k].text = segments[k]

\* the first route registered that matches, 0 when none does; none of the
\* handlers calls next(), so no later route is tried
Dispatch(method, segments) ==
  LET hits == {n \in 1..Len(ROUTES) : Matches(ROUTES[n], method, segments)} IN
  IF hits = {} THEN 0
  ELSE CHOOSE n \in hits : \A k \in hits : n <= k

\* what the handler of the route sends for the request: the handler of
\* GET /health its 200 {status: "ok"}, the handler of GET /:slug the
\* answer of the lookup of the segment; 404 when no route matches; the
\* other handlers are not gone into (status 0)
RouteAnswer(n, segments, api, table, t) ==
  IF n = 0 THEN [handler |-> "", status |-> 404, target |-> <<>>]
  ELSE IF ROUTES[n].handler = "health"
    THEN [handler |-> "health", status |-> 200, target |-> <<"o","k">>]
  ELSE IF ROUTES[n].handler = "slug"
    THEN LET slug == segments[1]
             found == HasSingle(table, slug)
             row == SingleRow(table, slug)
             a == IF ~found THEN Respond(api, 404, L_notFound, FALSE)
                  ELSE IF LookupIsExpired(row.expires_at, t)
                    THEN Respond(api, 410, L_expired, TRUE)
                  ELSE Respond(api, 200, row.original_url, FALSE) IN
         [handler |-> "slug", status |-> a.status, target |-> a.target]
  ELSE [handler |-> ROUTES[n].handler, status |-> 0, target |-> <<>>]

\* the request paths, as their segments
RequestPaths ==
  {<<S_health>>, <<S_shorten>>, <<S_bulkShorten>>, <<S_stats, S_abcdefg>>,
   <<S_abcdefg>>, <<S_stats>>, <<>>, <<S_stats, S_abcdefg, S_health>>}

\* the router takes the request to a handler, which answers
Route ==
  /\ fx.fn = "router"
  /\ fx.out = <<>>
  /\ fx' = [fx EXCEPT !.out =
              <<RouteAnswer(Dispatch(fx.arg.method, fx.arg.path),
                            fx.arg.path, fx.arg.api, urls, now)>>]
  /\ UNCHANGED <<form, bk, dbVars, now, createVars, sw, lookupVars, rlVars>>

\* ------------------------------------------------------------------------
\* Helper functions on their own
\* ------------------------------------------------------------------------
\* no function applied yet
NoCall == [fn |-> "", arg |-> <<>>, out |-> <<>>]

\* Instants are minutes since 2025-01-01T00:00Z; years have 365 days (no
\* instant used lies in or after a leap year's February).  NaN is the time
\* value of an Invalid Date; every comparison with it is false.
NaN == 0 - 1000000000
MonthDays == <<31, 28, 31, 30, 31, 30, 31, 31, 30, 31, 30, 31>>
DaysBefore == <<0, 31, 59, 90, 120, 151, 181, 212, 243, 273, 304, 334>>

\* the largest year a Date can hold (8.64e15 ms after 1970)
MAX_DATE_YEAR == 275760

\* Date.UTC(year, month - 1, day, hour, minute, 0): linear in its fields,
\* so that a day or an hour past the end of its unit rolls over
DateUTC(year, month, day, hour, minute) ==
  IF year = NaN THEN NaN
  ELSE ((year - 2025) * 365 + DaysBefore[month] + day - 1) * 1440
         + hour * 60 + minute

\* the calendar fields of an instant (getUTC..., formatToParts for UTC)
Fields(t) ==
  LET dayIndex == t \div 1440
      doy == dayIndex % 365
      m == CHOOSE k \in 1..12 :
             DaysBefore[k] <= doy /\ doy < DaysBefore[k] + MonthDays[k] IN
  [year |-> 2025 + (dayIndex \div 365), month |-> m,
   day |-> doy - DaysBefore[m] + 1,
   hour |-> (t % 1440) \div 60, minute |-> t % 60]

\* a string that does not split into numbers
BadLocal == [year |-> NaN, month |-> 1, day |-> 1, hour |-> 0, minute |-> 0]

\* the timezones of the requests, with the rules the tz database gives
\* them for 2025: offsets from UTC in minutes, and the instants at which
\* daylight time starts and ends
Zones == {"UTC", "America/Los_Angeles", "Europe/Berlin"}
ZoneRule ==
  [z \in Zones |->
     CASE z = "UTC" ->
            [std |-> 0, dst |-> 0, dstStart |-> 0, dstEnd |-> 0]
       [] z = "America/Los_Angeles" ->
            [std |-> 0 - 480, dst |-> 0 - 420,
             dstStart |-> DateUTC(2025, 3, 9, 10, 0),
             dstEnd |-> DateUTC(2025, 11, 2, 9, 0)]
       [] z = "Europe/Berlin" ->
            [std |-> 60, dst |-> 120,
             dstStart |-> DateUTC(2025, 3, 30, 1, 0),
             dstEnd |-> DateUTC(2025, 10, 26, 1, 0)]]

\* the offset of the zone in effect at an instant
OffsetAt(z, t) ==
  IF ZoneRule[z].dstStart <= t /\ t < ZoneRule[z].dstEnd
    THEN ZoneRule[z].dst ELSE ZoneRule[z].std

\* convertLocalToUTC: the local fields are read as a UTC instant, the
\* offset is the difference between what the zone shows at that instant
\* (formatToParts: the wall-clock fields of the zone at the instant) and
\* the instant; formatToParts throws for an Invalid Date and the catch
\* block parses the string again, which gives an Invalid Date
ConvertLocalToUTC(local, z) ==
  LET date == DateUTC(local.year, local.month, local.day, local.hour,
                      local.minute) IN
  IF date = NaN THEN NaN
  ELSE LET f == Fields(date + OffsetAt(z, date))
           tzDate == DateUTC(f.year, f.month, f.day, f.hour, f.minute)
           offset == tzDate - date IN
       date - offset

MSG_INVALID_EXPIRES == "Invalid expires_at format"
MSG_INVALID_RELATIVE == "Invalid relative_expiry format"

\* the bounds of validateAndComputeExpiry, in minutes
MinExpiry == MIN_EXPIRY_MS * 60
MaxExpiry == MAX_EXPIRY_MS * 60

\* the units that validateAndComputeExpiry lets through
Units == {"minutes", "hours", "days", "months", "years"}

\* addMonths of date-fns: the same day of the month that lies amount
\* months later, or the last day of that month when it is shorter; a
\* date past the range of Date is an Invalid Date
AddMonths(t, amount) ==
  LET f == Fields(t)
      mi == f.year * 12 + (f.month - 1) + amount
      y == mi \div 12
      m == (mi % 12) + 1
      d == IF f.day > MonthDays[m] THEN MonthDays[m] ELSE f.day IN
  IF y > MAX_DATE_YEAR THEN NaN
  ELSE DateUTC(y, m, d, f.hour, f.minute)

\* add(now, { [unit]: count }) of date-fns, the server running in UTC
Add(t, unit, count) ==
  CASE unit = "minutes" -> t + count
    [] unit = "hours" -> t + 60 * count
    [] unit = "days" -> t + 1440 * count
    [] unit = "months" -> AddMonths(t, count)
    [] unit = "years" -> AddMonths(t, 12 * count)

\* the parameters of validateAndComputeExpiry: expires_at with or without
\* timezone (zone ""), or relative_expiry, or neither
NoExpiryRq ==
  [form |-> "none", local |-> BadLocal, zone |-> "", count |-> 0, unit |-> ""]
AbsoluteRq(local, z) == [NoExpiryRq EXCEPT !.form = "absolute",
                                           !.local = local, !.zone = z]
RelativeRq(count, unit) == [NoExpiryRq EXCEPT !.form = "relative",
                                              !.count = count, !.unit = unit]

\* what validateAndComputeExpiry returns or throws
Accepted(expiration) == [err |-> "", never |-> FALSE, expiration |-> expiration]
NeverExpires == [err |-> "", never |-> TRUE, expiration |-> 0]
Rejected(msg) == [err |-> msg, never |-> FALSE, expiration |-> 0]

\* durationMs < MIN_EXPIRY_MS || durationMs > MAX_EXPIRY_MS: with an
\* Invalid Date the duration is NaN and both comparisons are false
CheckBounds(t, expiration) ==
  IF expiration # NaN
     /\ (expiration - t < MinExpiry \/ expiration - t > MaxExpiry)
    THEN Rejected(MSG_OUT_OF_BOUNDS)
  ELSE Accepted(expiration)

\* validateAndComputeExpiry at the instant t
ValidateAndComputeExpiry(t, req) ==
  IF req.form = "absolute"
    THEN LET expiration ==
               ConvertLocalToUTC(req.local,
                                 IF req.zone = "" THEN "UTC" ELSE req.zone) IN
         IF expiration = NaN THEN Rejected(MSG_INVALID_EXPIRES)
         ELSE IF expiration <= t THEN Rejected(MSG_NOT_FUTURE)
         ELSE CheckBounds(t, expiration)
  ELSE IF req.form = "relative"
    THEN IF req.unit \notin Units \/ req.count = NaN
           THEN Rejected(MSG_INVALID_RELATIVE)
         ELSE CheckBounds(t, Add(t, req.unit, req.count))
  ELSE NeverExpires

\* the instants at which requests arrive
NowTimes ==
  {DateUTC(2025, 1, 31, 10, 0), DateUTC(2025, 3, 1, 9, 0),
   DateUTC(2025, 11, 30, 12, 0)}

\* the absolute expiries asked for, as distances from now, and the
\* relative ones; 1e999 and the like aside, a count is a JSON number
ExpiryRqs(t) ==
  {NoExpiryRq}
    \cup {AbsoluteRq(Fields(t + d), z) :
            d \in {0 - 60, 0, 30, 59, 60, 61,
                   MaxExpiry - 1, MaxExpiry, MaxExpiry + 1},
            z \in {"", "UTC"}}
    \cup {AbsoluteRq(BadLocal, "")}
    \cup {RelativeRq(c, u) :
            c \in {NaN, 0 - 1, 0, 1, 2, 3, 4, 30, 59, 60, 61, 90, 91},
            u \in Units \cup {"weeks"}}
    \cup {RelativeRq(300000, "years")}

\* the call returns or throws
Validate ==
  /\ fx.fn = "validateAndComputeExpiry"
  /\ fx.out = <<>>
  /\ fx' = [fx EXCEPT !.out = <<ValidateAndComputeExpiry(fx.arg.t, fx.arg.req)>>]
  /\ UNCHANGED <<form, bk, dbVars, now, createVars, sw, lookupVars, rlVars>>

\* the wall-clock times given to the conversion: every half hour around
\* the days on which the zones change their offset, and a summer noon
WallTimes ==
  {DateUTC(2025, 3, 9, 0, 0) + 30 * k : k \in (0 - 4)..MaxHalfHours}
    \cup {DateUTC(2025, 3, 30, 0, 0) + 30 * k : k \in (0 - 4)..MaxHalfHours}
    \cup {DateUTC(2025, 11, 2, 0, 0) + 30 * k : k \in (0 - 4)..MaxHalfHours}
    \cup {DateUTC(2025, 6, 15, 12, 0)}

\* the call returns
Convert ==
  /\ fx.fn = "convertLocalToUTC"
  /\ fx.out = <<>>
  /\ fx' = [fx EXCEPT !.out = <<ConvertLocalToUTC(fx.arg.local, fx.arg.zone)>>]
  /\ UNCHANGED <<form, bk, dbVars, now, createVars, sw, lookupVars, rlVars>>

\* ------------------------------------------------------------------------
\* The creation form of the web client (ShortenForm)
\* ------------------------------------------------------------------------
\* the fields of the component that its submit handler reads: date stands
\* for "a date is selected", successData for "a result is shown", error is
\* "" when it is null
IdleForm ==
  [pc |-> "idle", originalUrl |-> <<>>, isExpiring |-> FALSE,
   expiryType |-> "null", date |-> FALSE, amount |-> "", loading |-> FALSE,
   error |-> "", successData |-> FALSE]

\* the values typed into the amount field, and Number(amount)
Amounts == {"", "0", "3", "-2"}
NumberOf == [a \in Amounts |-> CASE a = "3" -> 3 [] a = "-2" -> 0 - 2
                                  [] OTHER -> 0]

ERR_NO_URL == "Please enter a URL to shorten."
ERR_NO_DATE == "Please select a valid expiry date."
ERR_AMOUNT == "Please enter a positive amount for relative expiry."
ERR_NO_TYPE == "Please select an expiry type."
ERR_UNKNOWN == "Unknown error occurred."
ERR_CONNECT == "Failed to connect to the server."

\* onChange of the URL field
EditUrl ==
  /\ \E value \in {<<>>, S_url} :
       /\ value # form.originalUrl
       /\ form' = [form EXCEPT !.originalUrl = value]
  /\ UNCHANGED <<bk, fx, dbVars, now, createVars, sw, lookupVars, rlVars>>

\* onCheckedChange of the "Expiring Link" switch
SwitchExpiring ==
  /\ LET checked == ~form.isExpiring IN
     form' = [form EXCEPT !.isExpiring = checked,
                          !.expiryType = IF checked /\ @ = "null"
                                           THEN "definitive" ELSE @]
  /\ UNCHANGED <<bk, fx, dbVars, now, createVars, sw, lookupVars, rlVars>>

\* onPressedChange of the toggle of the given type, shown while the link
\* is expiring: pressing selects the type, releasing selects the other one
PressToggle ==
  /\ form.isExpiring
  /\ \E type \in {"definitive", "relative"} :
       LET pressed == form.expiryType # type
           other == IF type = "definitive" THEN "relative"
                    ELSE "definitive" IN
       form' = [form EXCEPT !.expiryType = IF pressed THEN type ELSE other]
  /\ UNCHANGED <<bk, fx, dbVars, now, createVars, sw, lookupVars, rlVars>>

\* onSelect of the calendar: a day is selected, or the selected day is
\* clicked again and the date is undefined
SelectDate ==
  /\ form.isExpiring
  /\ form.expiryType = "definitive"
  /\ form' = [form EXCEPT !.date = ~@]
  /\ UNCHANGED <<bk, fx, dbVars, now, createVars, sw, lookupVars, rlVars>>

\* onChange of the amount field
EditAmount ==
  /\ form.isExpiring
  /\ form.expiryType = "relative"
  /\ \E value \in Amounts :
       /\ value # form.amount
       /\ form' = [form EXCEPT !.amount = value]
  /\ UNCHANGED <<bk, fx, dbVars, now, createVars, sw, lookupVars, rlVars>>

\* the checks of handleSubmit before the request is sent: the message set
\* before its return, "" when the request is sent
ClientError(f) ==
  IF f.originalUrl = <<>> THEN ERR_NO_URL
  ELSE IF ~f.isExpiring THEN ""
  ELSE IF f.expiryType = "definitive"
    THEN IF ~f.date THEN ERR_NO_DATE ELSE ""
  ELSE IF f.expiryType = "relative"
    THEN IF f.amount = "" \/ NumberOf[f.amount] <= 0 THEN ERR_AMOUNT ELSE ""
  ELSE ERR_NO_TYPE

\* handleSubmit up to its first await: the form is submitted with its
\* button, which is disabled while loading is set; setLoading(true) comes
\* before the checks, whose returns are outside the try block
HandleSubmit ==
  /\ form.pc = "idle"
  /\ ~form.loading
  /\ LET err == ClientError(form) IN
     form' = [form EXCEPT !.error = err, !.successData = FALSE,
                          !.loading = TRUE,
                          !.pc = IF err = "" THEN "fetch" ELSE "idle"]
  /\ UNCHANGED <<bk, fx, dbVars, now, createVars, sw, lookupVars, rlVars>>

\* the rest of handleSubmit: the answer of fetch and of res.json(), the
\* catch block, and the finally block with setLoading(false)
FetchDone ==
  /\ form.pc = "fetch"
  /\ \/ form' = [form EXCEPT !.pc = "idle", !.successData = TRUE,
                             !.loading = FALSE]
     \/ \E msg \in {MSG_INVALID_URL, MSG_ALIAS_TAKEN, ERR_UNKNOWN,
                     ERR_CONNECT} :
          form' = [form EXCEPT !.pc = "idle", !.error = msg,
                               !.loading = FALSE]
  /\ UNCHANGED <<bk, fx, dbVars, now, createVars, sw, lookupVars, rlVars>>

\* ------------------------------------------------------------------------
\* Specifications
\* ------------------------------------------------------------------------
\* no request in progress, none answered yet
InitRequests ==
  /\ now = 0
  /\ cr = [i \in Creates |-> IdleCreate]
  /\ crStarted = 0
  /\ crResp = NoCreated
  /\ lk = [j \in Lookups |-> IdleLookup]
  /\ lkStarted = 0
  /\ lkResp = NoAnswer
  /\ served = [c \in LookupSlugs |-> 0]
  /\ updErr = FALSE
  /\ st = NoStats
  /\ rlCount = 0
  /\ rlTtl = NoTtl
  /\ rq = [k \in Rqs |-> IdleRq]
  /\ rlResp = NoResp
  /\ win = NewWin

InitRest ==
  /\ InitRequests
  /\ sw = [s \in Sweeps |-> IdleSweep]
  /\ bk = IdleBulk
  /\ form = IdleForm
  /\ fx = NoCall

\* the service after start-up: no rows, no images
Init ==
  /\ urls = {}
  /\ nextId = 1
  /\ qrcodes = {}
  /\ InitRest

\* creation requests, the sweeper and the clock
Next ==
  \/ \E i \in Creates : CreateStart(i)
  \/ \E i \in Creates : CreateCheckAlias(i)
  \/ \E i \in Creates : CreateCheckSlug(i)
  \/ \E i \in Creates : CreateInsert(i)
  \/ \E i \in Creates : CreateRenderUpload(i)
  \/ \E i \in Creates : CreatePatch(i)
  \/ \E s \in Sweeps : SweepFetch(s)
  \/ \E s \in Sweeps : SweepRemove(s)
  \/ \E s \in Sweeps : SweepDelete(s)
  \/ Tick

Spec == Init /\ [][Next]_vars

\* the service holding one link created at time 0, with or without expiry
InitLookup ==
  /\ \E exp \in ExpiryInputs :
       urls = {[NewRow(1, S_url, S_abcdefg, exp)
                  EXCEPT !.qr_code_url = publicUrl(S_abcdefg)]}
  /\ nextId = 2
  /\ qrcodes = {S_abcdefg}
  /\ InitRest

\* the read paths, the sweeper and the clock
NextLookup ==
  \/ \E j \in Lookups : LookupSelect(j)
  \/ \E j \in Lookups : LookupRespond(j)
  \/ \E j \in Lookups : LookupUpdate(j)
  \/ Stats
  \/ \E s \in Sweeps : SweepFetch(s)
  \/ \E s \in Sweeps : SweepRemove(s)
  \/ \E s \in Sweeps : SweepDelete(s)
  \/ Tick

SpecLookup == InitLookup /\ [][NextLookup]_vars

\* the rows of a table that the sweeper meets: NumRows links created at
\* time 0, each without expiry or expiring at some later hour, each with
\* its QR image stored
DigitChars == <<"1","2","3","4","5","6","7","8","9">>
RowCode(n) == <<"l","i","n","k", DigitChars[n]>>
RowExpiries == {Null} \cup 1..(MaxTime + 1)

InitSweep ==
  /\ \E exp \in [1..NumRows -> RowExpiries] :
       urls = {[NewRow(n, S_url, RowCode(n), exp[n])
                  EXCEPT !.qr_code_url = publicUrl(RowCode(n))] :
                 n \in 1..NumRows}
  /\ nextId = NumRows + 1
  /\ qrcodes = {RowCode(n) : n \in 1..NumRows}
  /\ InitRest

\* the sweeper and the clock
NextSweep ==
  \/ \E s \in Sweeps : SweepFetch(s)
  \/ \E s \in Sweeps : SweepRemove(s)
  \/ \E s \in Sweeps : SweepDelete(s)
  \/ Tick

SpecSweep == InitSweep /\ [][NextSweep]_vars

\* the schedule keeps calling the callback and the datastore answers again
\* and again: a select that can answer with rows infinitely often does,
\* the removal of the images returns, a delete that can succeed infinitely
\* often does
SpecSweepFair ==
  /\ InitSweep
  /\ [][NextSweep]_vars
  /\ \A s \in Sweeps :
       /\ SF_vars(SweepFetch(s) /\ sw'[s].pc = "remove")
       /\ WF_vars(SweepRemove(s))
       /\ SF_vars(SweepDelete(s) /\ ~sw'[s].delErr)

\* the service holding one link, and a schedule whose callback may be
\* called again while earlier calls are still waiting for the datastore
InitOverlap ==
  /\ \E exp \in ExpiryInputs :
       urls = {[NewRow(1, S_url, S_abcdefg, exp)
                  EXCEPT !.qr_code_url = publicUrl(S_abcdefg)]}
  /\ nextId = 2
  /\ qrcodes = {S_abcdefg}
  /\ InitRequests
  /\ sw = [s \in 1..NumOverlap |-> IdleSweep]
  /\ bk = IdleBulk
  /\ form = IdleForm
  /\ fx = NoCall

\* one creation request at a time, the calls of the cron callback and the
\* clock
NextOverlap ==
  \/ CreateStart(1)
  \/ CreateCheckAlias(1)
  \/ CreateCheckSlug(1)
  \/ CreateInsert(1)
  \/ CreateRenderUpload(1)
  \/ CreatePatch(1)
  \/ \E s \in DOMAIN sw : SweepFetch(s)
  \/ \E s \in DOMAIN sw : SweepRemove(s)
  \/ \E s \in DOMAIN sw : SweepDelete(s)
  \/ Tick

SpecOverlap == InitOverlap /\ [][NextOverlap]_vars

\* one bulk request to the service after start-up
NextBulk ==
  \/ BulkReceive
  \/ \E i \in Creates : BulkCall(i)
  \/ \E i \in Creates : CreateCheckAlias(i)
  \/ \E i \in Creates : CreateCheckSlug(i)
  \/ \E i \in Creates : CreateInsert(i)
  \/ \E i \in Creates : CreateRenderUpload(i)
  \/ \E i \in Creates : CreatePatch(i)
  \/ BulkCollect
  \/ BulkRespond

SpecBulk == Init /\ [][NextBulk]_vars

\* a call of convertLocalToUTC that has not returned yet
InitZone ==
  /\ \E w \in WallTimes, z \in Zones :
       fx = [fn |-> "convertLocalToUTC",
             arg |-> [local |-> Fields(w), zone |-> z], out |-> <<>>]
  /\ urls = {}
  /\ nextId = 1
  /\ qrcodes = {}
  /\ InitRequests
  /\ sw = [s \in Sweeps |-> IdleSweep]
  /\ bk = IdleBulk
  /\ form = IdleForm

SpecZone == InitZone /\ [][Convert]_vars

\* a call of validateAndComputeExpiry that has not returned yet
InitExpiry ==
  /\ \E t \in NowTimes :
       \E req \in ExpiryRqs(t) :
         fx = [fn |-> "validateAndComputeExpiry",
               arg |-> [t |-> t, req |-> req], out |-> <<>>]
  /\ urls = {}
  /\ nextId = 1
  /\ qrcodes = {}
  /\ InitRequests
  /\ sw = [s \in Sweeps |-> IdleSweep]
  /\ bk = IdleBulk
  /\ form = IdleForm

SpecExpiry == InitExpiry /\ [][Validate]_vars

\* a request that the router has not dispatched yet, to a service that
\* holds no link or one link with the custom alias "health"
InitRouter ==
  /\ \E method \in {"GET", "POST"}, path \in RequestPaths, api \in BOOLEAN :
       fx = [fn |-> "router",
             arg |-> [method |-> method, path |-> path, api |-> api],
             out |-> <<>>]
  /\ \/ (urls = {} /\ nextId = 1 /\ qrcodes = {})
     \/ /\ urls = {[NewRow(1, S_url, S_health, Null)
                       EXCEPT !.qr_code_url = publicUrl(S_health)]}
        /\ nextId = 2
        /\ qrcodes = {S_health}
  /\ InitRequests
  /\ sw = [s \in Sweeps |-> IdleSweep]
  /\ bk = IdleBulk
  /\ form = IdleForm

SpecRouter == InitRouter /\ [][Route]_vars

\* the rate limiter and the counter store
NextRL ==
  \/ \E k \in Rqs : RlIncr(k)
  \/ \E k \in Rqs : RlExpire(k)
  \/ \E k \in Rqs : RlInterrupt(k)
  \/ RlTick

SpecRL == Init /\ [][NextRL]_vars

\* app.post("/shorten", rateLimiter, handler): the handler runs once for a
\* call of next() by the rate limiter, and starts shortenUrl
HandlerStart(i) ==
  /\ rlResp.nexts > 0
  /\ rlResp' = [rlResp EXCEPT !.nexts = @ - 1]
  /\ cr[i].pc = "idle"
  /\ crStarted < MaxCreates
  /\ crStarted' = crStarted + 1
  /\ \E url \in UrlInputs, alias \in AliasInputs \cup {NoAlias},
        exp \in ExpiryInputs :
       ShortenStart(i, url, alias, exp)
  /\ UNCHANGED <<form, bk, fx, dbVars, now, sw, lookupVars, rlCount, rlTtl, rq,
                win>>

\* a client that has sent 19 requests in the current second, each answered
\* 400 for its missing URL: the counter is one short of the limit and the
\* store is empty
InitGate ==
  /\ urls = {}
  /\ nextId = 1
  /\ qrcodes = {}
  /\ now = 0
  /\ cr = [i \in Creates |-> IdleCreate]
  /\ crStarted = 0
  /\ crResp = NoCreated
  /\ lk = [j \in Lookups |-> IdleLookup]
  /\ lkStarted = 0
  /\ lkResp = NoAnswer
  /\ served = [c \in LookupSlugs |-> 0]
  /\ updErr = FALSE
  /\ st = NoStats
  /\ rlCount = MAX_REQUESTS_PER_WINDOW - 1
  /\ rlTtl = WindowTtl
  /\ rq = [k \in Rqs |-> IdleRq]
  /\ rlResp = NoResp
  /\ win = [NewWin EXCEPT !.admitted = MAX_REQUESTS_PER_WINDOW - 1]
  /\ sw = [s \in Sweeps |-> IdleSweep]
  /\ bk = IdleBulk
  /\ form = IdleForm
  /\ fx = NoCall

\* POST /shorten behind its rate limiter
NextGate ==
  \/ \E k \in Rqs : RlIncr(k)
  \/ \E i \in Creates : HandlerStart(i)
  \/ \E i \in Creates : CreateCheckAlias(i)
  \/ \E i \in Creates : CreateCheckSlug(i)
  \/ \E i \in Creates : CreateInsert(i)
  \/ \E i \in Creates : CreateRenderUpload(i)
  \/ \E i \in Creates : CreatePatch(i)

SpecGate == InitGate /\ [][NextGate]_vars

\* the creation form in the browser: the user's edits and the submit
\* handler
NextForm ==
  \/ EditUrl
  \/ SwitchExpiring
  \/ PressToggle
  \/ SelectDate
  \/ EditAmount
  \/ HandleSubmit
  \/ FetchDone

SpecForm == Init /\ [][NextForm]_vars


\* ------------------------------------------------------------------------
\* Properties
\* ------------------------------------------------------------------------
Min(a, b) == IF a < b THEN a ELSE b
Max(a, b) == IF a > b THEN a ELSE b

\* C1: in every reachable state, whatever the interleaving of creation
\* requests and sweeper runs, no two rows of the table have the same
\* short_code.
C1_UniqueShortCode ==
  \A r1 \in urls : \A r2 \in urls :
    r1.short_code = r2.short_code => r1.id = r2.id

\* a request reached the insert with a code that a row already held
C1_Witness_DuplicateRejected ==
  /\ crResp.insErr = MSG_DB_DUPLICATE
  /\ urls # {}

\* C2: a custom-alias request whose insert loses to the unique constraint
\* is answered 409 "Custom alias already in use", never 500.
C2_LoserIsAliasTaken ==
  (crResp.custom /\ crResp.insErr = MSG_DB_DUPLICATE)
    => (crResp.status = 409 /\ crResp.msg = MSG_ALIAS_TAKEN)

\* C3: a generated-code request whose insert is rejected by the unique
\* constraint inserts again with a new code instead of failing.
C3_GeneratedInsertRetried ==
  (~crResp.custom /\ crResp.insErr = MSG_DB_DUPLICATE) => crResp.inserts > 1

\* C4: the clicks of a row never decrease from one state to the next.
C4_ClicksNeverDecrease ==
  [][\A r \in urls : \A r2 \in urls' :
       r2.id = r.id => r2.clicks >= r.clicks]_vars

\* C5: once all served lookups of a code have completed their click update
\* without datastore error, the row's clicks equals their number.
C5_ClicksEqualsLookups ==
  ((\A j \in Lookups : lk[j].pc = "idle") /\ ~updErr)
    => \A r \in urls : r.clicks = served[r.short_code]

\* C6: a lookup that read a row whose expires_at was already in the past is
\* answered 410 (or redirected to the expired page), never with the
\* original_url, and starts no click update; this holds for every repetition.
C6_ExpiredNeverServed ==
  /\ lkResp.expired =>
       \/ lkResp.status = 410 /\ lkResp.target = <<>>
       \/ lkResp.status = 302 /\ lkResp.target = L_expired
  /\ \A j \in Lookups : lk[j].pc = "update" => ~lk[j].wasExpired

\* an expired row that is still stored was looked up again and refused
C6_Witness_ExpiredRefusedAgain ==
  /\ lkResp.expired
  /\ lkResp.status = 410
  /\ lkStarted >= 2
  /\ \E r \in urls : IsExpired(r.expires_at, now)
  /\ \A r \in urls : r.clicks = 0

\* C7: GET /stats/{code} of a row whose expires_at is in the past answers
\* 404 and does not return the row.
C7_StatsTreatsExpiredAsGone == st.expired => st.status = 404

InFlightFirst == Cardinality({k \in Rqs : rq[k].pc = "expire"})

\* C8: with a healthy counter store, within one window the first 20
\* requests of the client are admitted and each further one is answered 429
\* without next() being called.
C8_First20Admitted ==
  ~win.fault =>
    /\ win.admitted + InFlightFirst = Min(rlCount, 20)
    /\ win.rejected = Max(rlCount - 20, 0)
    /\ rlResp.outcome = "429" => rlResp.requests > 20
    /\ rlResp.outcome = "next" => rlResp.requests \in 1..20

\* the 21st request of a window was refused after 20 were admitted
C8_Witness_TwentyFirstRejected ==
  /\ ~win.fault
  /\ win.admitted = 20
  /\ win.rejected >= 1
  /\ rlResp.outcome = "429"
  /\ rlResp.requests = 21

\* C9: with a healthy counter store, the TTL of 60s is attached by the first
\* request of a window and not extended by later ones; a rate-limited client
\* has that TTL running, or about to be attached by the first request; when
\* it runs out the counter is gone, and the next request counts 1, attaches
\* a new TTL and is admitted.
C9_WindowResets ==
  [][~win'.fault =>
       /\ win.limited => (rlTtl \in 1..RATE_LIMIT_WINDOW \/ InFlightFirst > 0)
       /\ (rlTtl # NoTtl /\ rlTtl' # NoTtl) => rlTtl' <= rlTtl
       /\ (rlTtl # NoTtl /\ rlTtl' = NoTtl) => (rlTtl = 1 /\ rlCount' = 0)
       /\ (rlCount = 0 /\ rlCount' # 0) =>
            \E k \in Rqs : rq'[k] = [pc |-> "expire", requests |-> 1]
       /\ \A k \in Rqs :
            (rq[k].pc = "expire" /\ rq'[k].pc = "idle") =>
              /\ rlResp'.outcome = "next"
              /\ rlResp'.requests = 1
              /\ rlTtl' = RATE_LIMIT_WINDOW]_vars

\* a client that was rate-limited is admitted with counter 1 in a new window
C9_Witness_AdmittedAfterReset ==
  /\ ~win.fault
  /\ win.prevLimited
  /\ rlResp.outcome = "next"
  /\ rlResp.requests = 1
  /\ win.admitted = 1
  /\ rlTtl = RATE_LIMIT_WINDOW

\* C10: every counter that exists in the counter store carries a TTL of at
\* most the window length, in every reachable state.
C10_CounterHasTtl == rlCount > 0 => rlTtl \in 1..RATE_LIMIT_WINDOW

\* C11: whenever the increment or the TTL call of the counter store errors,
\* the request is passed on by exactly one call of next() and is never
\* answered 429; the failed request changes neither the counter nor its TTL.
C11_FailOpen ==
  /\ [](rlResp.err => (rlResp.outcome = "next" /\ rlResp.nexts = 1))
  /\ [][(rlResp'.err /\
          win'.admitted + win'.rejected = win.admitted + win.rejected + 1) =>
          /\ win'.admitted = win.admitted + 1
          /\ win'.rejected = win.rejected
          /\ rlCount' = rlCount
          /\ rlTtl' = rlTtl]_vars

\* the increment errored for a client that is over the limit, and the
\* request went through
C11_Witness_ErrorAdmitted ==
  /\ rlResp.err
  /\ rlResp.outcome = "next"
  /\ win.limited
  /\ rlCount > MAX_REQUESTS_PER_WINDOW

\* C12: a 429 answer carries a retry-after hint equal to the time that
\* remains of the client's current window.
C12_RetryAfterIsRemaining ==
  [][(~win'.fault /\ win'.rejected = win.rejected + 1 /\ rlTtl' # NoTtl) =>
       rlResp'.retryAfter = rlTtl']_vars

\* C13: with a healthy counter store, any interval of at most 60 seconds
\* holds at most 2 x 20 = 40 admitted requests of one client. An interval
\* that ends at an admission of the current window can hold admissions of
\* this window and of the one before it only: each window admits at most
\* 20, and whatever was admitted earlier came before the first INCR of the
\* previous window, which is at least 60 seconds back.
C13_AtMostFortyPerWindowLength ==
  ~win.fault =>
    /\ win.admitted <= MAX_REQUESTS_PER_WINDOW
    /\ (rlCount > 0 /\ win.prevAge # NoAge) =>
         win.prevAge >= RATE_LIMIT_WINDOW

\* 40 admissions within 60 seconds: 20 in a window whose first INCR was
\* exactly 60 seconds ago and 20 in the window that has just begun
C13_Witness_FortyAcrossBoundary ==
  /\ ~win.fault
  /\ win.prevFull
  /\ win.prevAge = RATE_LIMIT_WINDOW
  /\ win.admitted = MAX_REQUESTS_PER_WINDOW
  /\ win.startAge = 0

\* the codes custom aliases turn into, and the two rules on them, tabulated
AliasCodes == {LoweredOf[a] : a \in AliasInputs}
ReservedOf == [c \in AliasCodes |-> isReserved(c)]
WellFormedOf == [c \in AliasCodes |-> isValidCustomAlias(c)]

EarlierErrors ==
  {MSG_MISSING_URL, MSG_INVALID_URL, MSG_NOT_FUTURE, MSG_OUT_OF_BOUNDS}

SlugResolverState ==
  /\ \A i \in Creates :
       /\ cr[i].attempts <= maxAttempts
       /\ cr[i].pc = "checkSlug" =>
            (cr[i].attempts < maxAttempts /\ cr[i].hits = cr[i].attempts)
       /\ (~cr[i].custom /\ cr[i].pc = "insert") =>
            (cr[i].attempts \in 1..maxAttempts
               /\ cr[i].hits = cr[i].attempts - 1)
  /\ crResp.msg = MSG_SLUG_EXHAUSTED <=>
       (~crResp.custom /\ crResp.hits = maxAttempts)
  /\ crResp.msg = MSG_SLUG_EXHAUSTED =>
       (crResp.attempts = maxAttempts /\ crResp.inserts = 0
          /\ crResp.status = 500)

C16_SlugResolverBounded ==
  /\ []SlugResolverState
  /\ [][\A i \in Creates :
          (cr[i].pc = "checkSlug" /\ cr'[i].pc = "idle") =>
             /\ crResp'.msg = MSG_SLUG_EXHAUSTED
             /\ urls' = urls
             /\ crStarted' = crStarted]_vars

\* a request gave up after five generated codes that were all taken
C16_Witness_Exhausted ==
  /\ crResp.msg = MSG_SLUG_EXHAUSTED
  /\ crResp.attempts = maxAttempts
  /\ crResp.hits = maxAttempts
  /\ crResp.inserts = 0
  /\ Cardinality(urls) = 1

\* C17: a request whose insert succeeded is answered 201, also when the
\* rendering of the image, its upload or the update of qr_code_url fails.
C17_InsertedMeansCreated ==
  (crResp.inserts > 0 /\ crResp.insErr = "") => crResp.status = 201

\* C18: when the upload of the image fails, qr_code_url of the row stays
\* null and the answer carries no qr_code_url.
C18_RefOnlyAfterStore ==
  /\ []((crResp.status = 201 /\ ~crResp.stored) => crResp.qr = <<>>)
  /\ [][\A i \in Creates :
          (cr[i].pc = "patch" /\ cr'[i].pc = "idle" /\ ~cr[i].stored) =>
             urls' = urls]_vars

\* the rows of the table that are expired at time t, written out
ExpiredRowsAt(t) == {r \in urls : r.expires_at # Null /\ r.expires_at < t}

\* C19: a sweep run without failures deletes exactly the rows whose
\* expires_at is before the time of its select, and their images, and leaves
\* every other row and its image as they are.
C19_SweepDeletesExactlyExpired ==
  [][\A s \in Sweeps :
       /\ (sw[s].pc = "idle" /\ sw'[s].pc = "remove") =>
            /\ sw'[s].at = now
            /\ sw'[s].codes = {r.short_code : r \in ExpiredRowsAt(now)}
       /\ (sw[s].pc = "remove" /\ sw'[s].pc # "remove" /\ ~sw'[s].remErr) =>
            /\ qrcodes' = qrcodes \ sw[s].codes
            /\ \A r \in urls \ ExpiredRowsAt(sw[s].at) :
                 r.short_code \in qrcodes' <=> r.short_code \in qrcodes
            /\ urls' = urls
       /\ (sw[s].pc = "delete" /\ sw'[s].pc = "idle"
             /\ ~sw'[s].remErr /\ ~sw'[s].delErr) =>
            /\ urls' = urls \ ExpiredRowsAt(sw[s].at)
            /\ qrcodes' = qrcodes]_vars

\* all rows but one were expired and swept with their images; the last one,
\* which expires later, is there with its image
C19_Witness_AllButOneSwept ==
  /\ \E s \in Sweeps : sw[s].done /\ ~sw[s].remErr /\ ~sw[s].delErr
  /\ nextId = NumRows + 1
  /\ Cardinality(urls) = 1
  /\ \A r \in urls :
       /\ r.expires_at # Null
       /\ r.expires_at > now
       /\ r.qr_code_url = publicUrl(r.short_code)
       /\ qrcodes = {r.short_code}

\* C20: a failure of the bulk removal of the images does not end the sweep:
\* the run goes on to the delete of the rows it matched, and that delete,
\* when it succeeds, leaves none of them in the table.
C20_SweepGoesOnAfterStorageError ==
  /\ [](\A s \in Sweeps :
          (sw[s].pc # "idle" /\ sw[s].remErr) =>
             (sw[s].pc = "delete" /\ sw[s].codes # {}))
  /\ [][\A s \in Sweeps :
          /\ (sw[s].pc = "remove" /\ sw'[s] # sw[s]) =>
               (sw'[s].pc = "delete" /\ sw'[s].codes = sw[s].codes)
          /\ (sw[s].pc = "delete" /\ sw[s].remErr /\ sw'[s].done
                /\ ~sw'[s].delErr) =>
               \A r \in urls' : r.short_code \notin sw[s].codes]_vars

\* the removal of the images failed, the rows were deleted all the same, and
\* the images are still in the bucket
C20_Witness_RowsGoneImagesLeft ==
  /\ \E s \in Sweeps : sw[s].done /\ sw[s].remErr /\ ~sw[s].delErr
  /\ urls = {}
  /\ Cardinality(qrcodes) = nextId - 1

\* the row with the given id is in the table and expired
ExpiredRow(n) == \E r \in urls : r.id = n /\ IsExpired(r.expires_at, now)

\* C21: a sweep whose delete of the rows fails leaves the table as it was,
\* and every row it had matched is still matched by the select of the next
\* run; with a schedule that goes on and a datastore that answers in the
\* end, every expired row is deleted in the end
C21_FailedDeleteIsRetried ==
  /\ [][\A s \in DOMAIN sw :
         (SweepDelete(s) /\ sw'[s].delErr) =>
            /\ urls' = urls
            /\ \A r \in urls' : r.short_code \in sw[s].codes =>
                  r.short_code \in ExpiredCodes(urls', now')]_vars
  /\ \A n \in 1..NumRows :
       ExpiredRow(n) ~> (\A r \in urls : r.id # n)

\* a run whose delete failed was followed by a run that matched the same
\* rows again and is about to delete them
C21_Witness_MatchedAgain ==
  \E s \in DOMAIN sw :
    /\ sw[s].pc = "delete"
    /\ sw[s].delErr
    /\ sw[s].codes # {}
    /\ sw[s].codes = ExpiredCodes(urls, now)
\* C22: sweep runs are serialized: at no time are two calls of the cron
\* callback between their select and the end of their delete
C22_SweepsSerialized ==
  Cardinality({s \in DOMAIN sw : sw[s].pc # "idle"}) <= 1

\* C25: a row without expiry is never matched by a select of the sweeper
\* and never removed by a delete of the sweeper
C25_NoExpiryNeverSwept ==
  [][\A s \in DOMAIN sw :
       /\ SweepFetch(s) =>
            \A r \in urls : r.expires_at = Null =>
               r.short_code \notin sw'[s].codes
       /\ SweepDelete(s) =>
            \A r \in urls \ urls' : r.expires_at # Null]_vars

\* C29: every row that a delete of the sweeper removes is expired at the
\* moment of the delete, whatever other runs and creation requests did
\* between the select and the delete
C29_OnlyExpiredDeleted ==
  [][\A s \in DOMAIN sw :
       SweepDelete(s) =>
         \A r \in urls \ urls' : IsExpired(r.expires_at, now)]_vars

\* C30: for a generated code, the short_code that goes into the insert is
\* the string that the last existence check of the request looked for
C30_InsertedCodeIsCheckedCode ==
  \A i \in Creates :
    (cr[i].pc = "insert" /\ ~cr[i].custom) => cr[i].short_code = cr[i].slug

\* C26: a lookup that found a live row is answered with the redirect to
\* (or the JSON echo of) its original_url before the click update runs,
\* and the update, failed or not, leaves the answer given as it is
C26_UpdateFailureKeepsAnswer ==
  [][\A j \in Lookups :
       /\ (LookupRespond(j) /\ lk'[j].pc = "update") =>
            /\ lkResp'.status = IF lk[j].api THEN 200 ELSE 302
            /\ lkResp'.target = lk[j].data.original_url
       /\ LookupUpdate(j) => lkResp' = lkResp]_vars

\* the only lookup so far was answered with the link's URL and its click
\* update failed
C26_Witness_AnsweredThenUpdateFailed ==
  /\ updErr
  /\ lkStarted = 1
  /\ \A j \in Lookups : lk[j].pc = "idle"
  /\ lkResp.status \in {200, 302}
  /\ lkResp.target = S_url
  /\ \A r \in urls : r.clicks = 0

\* C23: a bulk request over an array of N items is answered 207 with N
\* results, result k being that of item k: success for a created link;
\* otherwise a failure with the status that POST /shorten would give, and
\* the items after it are still processed
C23_BulkAnswersEveryItem ==
  bk.pc = "done" /\ bk.status # 400 =>
    /\ bk.status = 207
    /\ Len(bk.results) = Len(bk.items)
    /\ \A k \in 1..Len(bk.items) :
         /\ bk.results[k].original_url = bk.items[k].original_url
         /\ bk.results[k].success <=> bk.results[k].error_code = 0

\* the wall-clock time is skipped by the zone: no instant shows it
IsGap(z, w) ==
  \A o \in {ZoneRule[z].std, ZoneRule[z].dst} :
    (w - o) + OffsetAt(z, w - o) # w

\* the instant u is the wall-clock time w of the zone: the zone shows w at
\* u, or w is skipped by a spring-forward transition and u is w taken with
\* the offset after the transition
Resolves(z, w, u) ==
  \/ u + OffsetAt(z, u) = w
  \/ IsGap(z, w) /\ u = w - ZoneRule[z].dst

\* C28: the conversion of a naive local timestamp in a timezone gives the
\* instant obtained with the zone's offset in effect at that wall-clock
\* time, also within one offset-width of a transition; a time skipped by
\* a spring-forward transition takes the offset after the transition
C28_LocalResolvedAtWallClock ==
  (fx.fn = "convertLocalToUTC" /\ fx.out # <<>>) =>
    LET l == fx.arg.local IN
    Resolves(fx.arg.zone,
             DateUTC(l.year, l.month, l.day, l.hour, l.minute), fx.out[1])

\* the expiry asked for lies outside [1 hour, 3 months] from now whatever
\* the calendar: an absolute instant by its distance, a relative one by
\* its count (a month has 28 to 31 days, a year at least 365)
OutOfRange(t, req) ==
  LET l == req.local
      d == DateUTC(l.year, l.month, l.day, l.hour, l.minute) - t
      c == req.count
      u == req.unit IN
  IF req.form = "absolute"
    THEN l.year # NaN /\ (d < MinExpiry \/ d > MaxExpiry)
  ELSE IF req.form = "relative" /\ u \in Units /\ c # NaN
    THEN IF u = "minutes" THEN c < MinExpiry \/ c > MaxExpiry
         ELSE IF u = "hours" THEN c * 60 < MinExpiry \/ c * 60 > MaxExpiry
         ELSE IF u = "days" THEN c < 1 \/ c * 1440 > MaxExpiry
         ELSE IF u = "months" THEN c < 1 \/ c * 28 * 1440 > MaxExpiry
         ELSE c < 1 \/ c * 365 > MaxExpiry \div 1440
  ELSE FALSE

\* C24: every expiry that validateAndComputeExpiry accepts, absolute or
\* relative, lies between 1 hour and the 3-month maximum from now; every
\* request outside that range fails with the out-of-bounds error (an
\* absolute instant that is not in the future with the not-in-the-future
\* error that precedes the bound check); {30, minutes} and {4, months} are
\* rejected and {2, days} is accepted
C24_ExpiryWithinBounds ==
  (fx.fn = "validateAndComputeExpiry" /\ fx.out # <<>>) =>
    LET t == fx.arg.t
        req == fx.arg.req
        r == fx.out[1] IN
    /\ (r.err = "" /\ ~r.never) =>
         /\ r.expiration # NaN
         /\ r.expiration - t >= MinExpiry
         /\ r.expiration - t <= MaxExpiry
    /\ OutOfRange(t, req) =>
         \/ r.err = MSG_OUT_OF_BOUNDS
         \/ req.form = "absolute" /\ r.err = MSG_NOT_FUTURE
    /\ req = RelativeRq(30, "minutes") => r.err = MSG_OUT_OF_BOUNDS
    /\ req = RelativeRq(4, "months") => r.err = MSG_OUT_OF_BOUNDS
    /\ req = RelativeRq(2, "days") => r = Accepted(t + 2 * 1440)

\* C27: GET /health is taken to the health handler and answered
\* 200 {status: "ok"}, whatever the datastore holds
C27_HealthAnsweredByHealthRoute ==
  (fx.fn = "router" /\ fx.out # <<>> /\ fx.arg.method = "GET"
     /\ fx.arg.path = <<S_health>>) =>
    /\ fx.out[1].handler = "health"
    /\ fx.out[1].status = 200

\* C31: when a creation request ends with an error answer, the table
\* holds no row that the request inserted: a request that ends after its
\* insert succeeded (at the rendering or the patch) either is answered 201
\* or has left no row with its code
C31_ErrorLeavesNoRow ==
  [][\A i \in Creates :
       (cr[i].pc \in {"render", "patch"} /\ cr'[i].pc = "idle"
          /\ crResp'.status # 201) =>
         RowsByCode(urls', cr[i].short_code) = {}]_vars

\* C32: no row of the table ever has a reserved word as its short_code,
\* whether the code was a custom alias or came from the generator
C32_NoReservedCodeStored ==
  \A r \in urls : r.short_code \notin RESERVED_WORDS

\* the messages of the validation of a creation request
ValidationErrors ==
  {MSG_MISSING_URL, MSG_INVALID_URL, MSG_NOT_FUTURE, MSG_OUT_OF_BOUNDS,
   MSG_RESERVED, MSG_ALIAS_FORMAT, MSG_ALIAS_TAKEN}

\* C33: a creation request refused by the rate limiter (429, the handler is
\* not called) or by the validation (the URL, the expiry, the alias checks,
\* the alias being taken) changes neither the table nor the bucket
C33_RejectionLeavesStores ==
  [][/\ (rq' # rq \/ rlCount' # rlCount) /\ rlResp'.outcome = "429" =>
          rlResp'.nexts = 0 /\ UNCHANGED <<dbVars, createVars>>
     /\ \A i \in Creates :
          /\ crStarted' # crStarted /\ cr' = cr =>
                crResp'.msg \in ValidationErrors /\ UNCHANGED dbVars
          /\ cr[i].pc = "checkAlias" /\ cr'[i].pc = "idle" =>
                crResp'.msg = MSG_ALIAS_TAKEN /\ UNCHANGED dbVars]_vars

\* a request has been refused by the rate limiter, one by the validation,
\* and the store holds a row of a request that was let through
C33_Witness_BothRefusals ==
  /\ rlResp.outcome = "429"
  /\ crResp.msg = MSG_ALIAS_TAKEN
  /\ urls # {}

\* C34: for every stored short_code and every casing of it, the select of
\* GET /:slug and the select of GET /stats/:slug find the row or miss it
\* together
C34_ReadPathsAgree ==
  \A s \in LookupSlugs :
    HasSingle(urls, LoweredOf[s]) =>
      (HasSingle(urls, RedirectKey(s)) <=> HasSingle(urls, StatsKey(s)))

\* C35: a relative expiry of 3 months is accepted whatever the date of the
\* request, and expires three calendar months later
C35_ThreeMonthsAccepted ==
  (/\ fx.fn = "validateAndComputeExpiry"
   /\ fx.out # <<>>
   /\ fx.arg.req = RelativeRq(3, "months")) =>
    fx.out[1] = Accepted(AddMonths(fx.arg.t, 3))

\* C36: whenever handleSubmit is not running, the loading flag is false:
\* every run of the handler, whichever way it ends, leaves the submit
\* button enabled
C36_LoadingClearedAfterSubmit ==
  form.pc = "idle" => ~form.loading

====
